---- MODULE Spec2Model ----
(***************************************************************************)
(* State-machine model of YuneecCameraControl                              *)
(* (custom/src/FirmwarePlugin/YuneecCameraControl.cc): the MAVLink message *)
(* router and its handlers (gimbal version, gimbal orientation, gimbal     *)
(* calibration acks, heartbeat), the calibration stall timer, the local    *)
(* record-time clock, the shutter-speed / ISO reconciler with its deferred *)
(* flush, the spot-area codec, the dispatcher of the remote control's     *)
(* shutter and video buttons with its deferred requests, and the handler   *)
(* of parameter change notifications.                                      *)
(*                                                                         *)
(* Signals (Qt "emit") are modelled by the variable emitted: the set of    *)
(* signals the last handler emitted.  lastOp names the last handler run    *)
(* and its argument.  Times are in milliseconds.                           *)
(***************************************************************************)
EXTENDS Integers, Sequences, FiniteSets, TLC

VARIABLES
    \* ---- gimbal calibration (members of the class)
    _gimbalCalOn,       \* bool
    _gimbalProgress,    \* int
    _gimbalTimer,       \* single-shot QTimer: -1 inactive, else ms remaining
    \* ---- flight-mode monitor
    _inMissionMode,     \* bool
    requestAllCalls,    \* number of calls of _requestAllParameters()
    \* ---- gimbal version and orientation
    _gimbalVersion,     \* QString "major.minor.patch" as a tuple, <<>> when empty
    _gimbalRoll, _gimbalPitch, _gimbalYaw,  \* degrees, in tenths
    _gimbalData,        \* bool
    \* ---- capture state tracker
    videoStatus,        \* QGCCameraControl::videoStatus()
    _recordTime,        \* ms
    _recTime,           \* QTime: ms of the day at which the clock was started
    _recTimer,          \* repeating QTimer (333 ms): TRUE when active
    _activeSettings,    \* QStringList of editable parameters
    \* ---- parameter registry and value reconciler
    rawValue,           \* Fact::rawValue() of each parameter
    enumValues,         \* Fact::enumValues() of CAM_SHUTTERSPD and CAM_ISO
    _updatesToSend,     \* QStringList
    singleShots,        \* pending QTimer::singleShot callbacks: <<[slot, ms, at]>>
    \* ---- spot-area codec
    _videoSize,         \* QSize as <<width, height>>
    _isCGOET,           \* thermal variant
    _paramComplete,     \* bool
    \* ---- camera state kept by the base class QGCCameraControl
    cameraMode,         \* cameraMode()
    photoStatus,        \* photoStatus()
    storageTotal,       \* storageTotal()
    storageFree,        \* storageFree()
    photosInVideoMode,  \* photosInVideoMode(): capability of the variant
    _captureStatusTimer,  \* single-shot QTimer of the base class that requests
                          \* the capture status: -1 inactive, else ms remaining
    _captureInfoRetries,  \* capture-status requests that failed so far
    \* ---- thermal status poll
    _irValid,           \* bool
    _irStatusTimer,     \* QTimer: "inactive" or "repeating" (1000 ms)
    \* ---- environment and observation
    now,                \* ms elapsed since construction
    emitted,            \* signals emitted by the last handler
    sent,               \* parameters sent (sendParameter) by the last handler
    called,             \* capture requests made by the last handler
    lastOp,             \* [op, arg, pre]: the last handler, its argument and
                        \* the part of the state it started from
    \* ---- history of the heartbeat stream (observation only)
    hbCount,            \* heartbeats of the default component seen so far
    hbPrevMission,      \* the previous such heartbeat was in mission sub-mode
    missionExits,       \* mission -> non-mission transitions in that stream
    lastAck,            \* progress of the last calibration ack handled, -1 when none
    \* ---- history of the capture-status stream (observation only)
    syncR,              \* recording_time_ms of the last telemetry of this
                        \* recording, -1 when none
    syncAt              \* value of now when it arrived

calVars == <<_gimbalCalOn, _gimbalProgress, _gimbalTimer>>
hbVars  == <<_inMissionMode, requestAllCalls>>
verVars == <<_gimbalVersion>>
oriVars == <<_gimbalRoll, _gimbalPitch, _gimbalYaw, _gimbalData>>
recVars == <<videoStatus, _recordTime, _recTime, _recTimer, _activeSettings>>
parVars == <<rawValue, enumValues, _updatesToSend, singleShots>>
cfgVars == <<_videoSize, _isCGOET, _paramComplete>>
baseVars == <<cameraMode, photoStatus, storageTotal, storageFree, photosInVideoMode>>
irVars == <<_irValid, _irStatusTimer>>
camVars == <<baseVars, _captureStatusTimer, _captureInfoRetries, irVars>>
histVars == <<hbCount, hbPrevMission, missionExits, lastAck, syncR, syncAt>>

vars == <<calVars, hbVars, verVars, oriVars, recVars, parVars, cfgVars, camVars,
          now, emitted, sent, called, lastOp, histVars>>

-----------------------------------------------------------------------------
(* Bounds of the exploration *)

\* time may advance this many quanta in one behaviour
MaxQuanta == 12
\* the same, where only the 100 ms flush delay matters
MaxFlushQuanta == 4
\* the same, in steps of 100 ms, where a settling delay of 2500 ms is to expire
MaxSettleQuanta == 26
\* heartbeats of the default component in one behaviour
MaxHeartbeats == 5
\* the same, in steps of 500 ms, where parameter changes meet button presses
MaxExposureQuanta == 3
\* failed capture-status requests counted in one behaviour
MaxRetries == 2
\* QTimer::singleShot callbacks pending at one time
MaxSingleShots == 2
\* enumerated and measured parameter values are drawn from 0..MaxValue
MaxValue == 3
\* length of an enumerated-value list
MaxEnum == 3
\* frame widths and heights are drawn from 1..MaxFrame (and 100)
MaxFrame == 3
\* pixel coordinates are drawn from -1..MaxCoord (and a few larger ones)
MaxCoord == 3

-----------------------------------------------------------------------------
(* Protocol constants and message universe *)

PX4_CUSTOM_SUB_MODE_AUTO_MISSION == 4

MsgIds  == {"AUTOPILOT_VERSION", "MOUNT_ORIENTATION", "COMMAND_ACK", "HEARTBEAT", "OTHER"}
CompIds == {"MAV_COMP_ID_GIMBAL", "defaultComponentId", "OTHER"}
Commands == {"MAV_CMD_PREFLIGHT_CALIBRATION", "OTHER"}

\* progress bytes of command acks (uint8_t)
ProgressBytes == {0, 10, 50, 99, 100, 150, 255}
\* sub_mode bytes of heartbeats
SubModes == {0, 3, PX4_CUSTOM_SUB_MODE_AUTO_MISSION}
\* flight_sw_version words: 1.2.3.x and 2.0.255.x
VersionWords == {16909060, 33619712}

Msg(id, comp) ==
    [msgid |-> id, compid |-> comp, command |-> "OTHER", progress |-> 0,
     sub_mode |-> 0, flight_sw_version |-> 0, roll |-> 0, pitch |-> 0, yaw |-> 0]

AckMessages ==
    {[Msg("COMMAND_ACK", c) EXCEPT !.command = cmd, !.progress = p] :
        c \in {"MAV_COMP_ID_GIMBAL", "OTHER"}, cmd \in Commands, p \in ProgressBytes}

HeartbeatMessages ==
    {[Msg("HEARTBEAT", c) EXCEPT !.sub_mode = s] :
        c \in {"defaultComponentId", "OTHER"}, s \in SubModes}

VersionMessages ==
    {[Msg("AUTOPILOT_VERSION", c) EXCEPT !.flight_sw_version = w] :
        c \in {"MAV_COMP_ID_GIMBAL", "OTHER"}, w \in VersionWords}

\* mount orientations, in tenths of a degree
Angles == {0, 4, 20}
OrientationMessages ==
    {[Msg("MOUNT_ORIENTATION", "MAV_COMP_ID_GIMBAL") EXCEPT !.roll = a] :
        a \in Angles}

\* messages of a type that has no case in the router
OtherMessages == {Msg("OTHER", c) : c \in CompIds}

-----------------------------------------------------------------------------
(* Gimbal calibration *)

\* _handleGimbalResult without _gimbalTimer.stop() on the terminal ack
_handleGimbalResult_NoStop(progress) ==
    LET terminal == _gimbalCalOn /\ progress = 255
        begins   == ~_gimbalCalOn /\ progress # 0 /\ progress < 255
    IN  /\ _gimbalCalOn' = IF terminal THEN FALSE
                           ELSE IF begins THEN TRUE ELSE _gimbalCalOn
        /\ _gimbalProgress' = IF progress < 255 THEN progress
                              ELSE IF terminal THEN 100 ELSE _gimbalProgress
        /\ _gimbalTimer' = IF progress < 255 /\ progress = 99 THEN 5000
                           ELSE _gimbalTimer
        /\ emitted' = (IF terminal \/ begins THEN {"gimbalCalOnChanged"} ELSE {})
                      \cup {"gimbalProgressChanged"}

\* _handleGimbalResult publishing the progress byte clamped to 100
_handleGimbalResult_Clamped(progress) ==
    LET terminal == _gimbalCalOn /\ progress = 255
        begins   == ~_gimbalCalOn /\ progress # 0 /\ progress < 255
    IN  /\ _gimbalCalOn' = IF terminal THEN FALSE
                           ELSE IF begins THEN TRUE ELSE _gimbalCalOn
        /\ _gimbalProgress' = IF progress < 255
                              THEN (IF progress > 100 THEN 100 ELSE progress)
                              ELSE IF terminal THEN 100 ELSE _gimbalProgress
        /\ _gimbalTimer' = IF progress < 255 /\ progress = 99 THEN 5000
                           ELSE IF terminal THEN -1 ELSE _gimbalTimer
        /\ emitted' = (IF terminal \/ begins THEN {"gimbalCalOnChanged"} ELSE {})
                      \cup {"gimbalProgressChanged"}

\* _handleGimbalResult(result, progress); result is only logged
_handleGimbalResult(progress) ==
    LET terminal == _gimbalCalOn /\ progress = 255
        begins   == ~_gimbalCalOn /\ progress # 0 /\ progress < 255
    IN  /\ _gimbalCalOn' = IF terminal THEN FALSE
                           ELSE IF begins THEN TRUE ELSE _gimbalCalOn
        /\ _gimbalProgress' = IF progress < 255 THEN progress
                              ELSE IF terminal THEN 100 ELSE _gimbalProgress
        /\ _gimbalTimer' = IF progress < 255 /\ progress = 99 THEN 5000
                           ELSE IF terminal THEN -1 ELSE _gimbalTimer
        /\ emitted' = (IF terminal \/ begins THEN {"gimbalCalOnChanged"} ELSE {})
                      \cup {"gimbalProgressChanged"}

\* _handleCommandAck without the test of the source component
_handleCommandAck_AnyComp(message) ==
    IF message.command = "MAV_CMD_PREFLIGHT_CALIBRATION"
    THEN _handleGimbalResult(message.progress)
    ELSE UNCHANGED calVars /\ emitted' = {}

_handleCommandAck(message) ==
    IF message.command = "MAV_CMD_PREFLIGHT_CALIBRATION"
       /\ message.compid = "MAV_COMP_ID_GIMBAL"
    THEN _handleGimbalResult(message.progress)
    ELSE UNCHANGED calVars /\ emitted' = {}

\* _gimbalCalTimeout that publishes 100 but leaves calibration active
_gimbalCalTimeout_KeepsOn ==
    IF _gimbalProgress = 99
    THEN /\ _gimbalProgress' = 100
         /\ UNCHANGED _gimbalCalOn
         /\ emitted' = {"gimbalProgressChanged"}
    ELSE /\ UNCHANGED <<_gimbalProgress, _gimbalCalOn>>
         /\ emitted' = {}

\* the body of the slot, run when the single-shot timer has expired
_gimbalCalTimeout ==
    IF _gimbalProgress = 99
    THEN /\ _gimbalProgress' = 100
         /\ _gimbalCalOn' = FALSE
         /\ emitted' = {"gimbalProgressChanged", "gimbalCalOnChanged"}
    ELSE /\ UNCHANGED <<_gimbalProgress, _gimbalCalOn>>
         /\ emitted' = {}

-----------------------------------------------------------------------------
(* Flight-mode monitor *)

\* _handleHeartBeat that resynchronizes on every non-mission heartbeat
_handleHeartBeat_Level(message) ==
    IF message.compid = "defaultComponentId"
    THEN IF message.sub_mode # PX4_CUSTOM_SUB_MODE_AUTO_MISSION
         THEN /\ _inMissionMode' = FALSE
              /\ requestAllCalls' = requestAllCalls + 1
              /\ emitted' = {}
         ELSE IF message.sub_mode = PX4_CUSTOM_SUB_MODE_AUTO_MISSION /\ ~_inMissionMode
         THEN /\ _inMissionMode' = TRUE
              /\ UNCHANGED requestAllCalls
              /\ emitted' = {}
         ELSE UNCHANGED hbVars /\ emitted' = {}
    ELSE UNCHANGED hbVars /\ emitted' = {}

_handleHeartBeat(message) ==
    IF message.compid = "defaultComponentId"
    THEN IF message.sub_mode # PX4_CUSTOM_SUB_MODE_AUTO_MISSION /\ _inMissionMode
         THEN /\ _inMissionMode' = FALSE
              /\ requestAllCalls' = requestAllCalls + 1
              /\ emitted' = {}
         ELSE IF message.sub_mode = PX4_CUSTOM_SUB_MODE_AUTO_MISSION /\ ~_inMissionMode
         THEN /\ _inMissionMode' = TRUE
              /\ UNCHANGED requestAllCalls
              /\ emitted' = {}
         ELSE UNCHANGED hbVars /\ emitted' = {}
    ELSE UNCHANGED hbVars /\ emitted' = {}

-----------------------------------------------------------------------------
(* Gimbal version *)

Byte(word, n) == (word \div (2 ^ (8 * n))) % 256

\* _handleHardwareVersion that notifies only when the version changes
_handleHardwareVersion_Once(message) ==
    IF message.compid = "MAV_COMP_ID_GIMBAL"
    THEN LET v == << Byte(message.flight_sw_version, 3),
                     Byte(message.flight_sw_version, 2),
                     Byte(message.flight_sw_version, 1) >>
         IN  /\ _gimbalVersion' = v
             /\ emitted' = IF v # _gimbalVersion THEN {"gimbalVersionChanged"} ELSE {}
    ELSE UNCHANGED verVars /\ emitted' = {}

_handleHardwareVersion(message) ==
    IF message.compid = "MAV_COMP_ID_GIMBAL"
    THEN /\ _gimbalVersion' = << Byte(message.flight_sw_version, 3),
                                 Byte(message.flight_sw_version, 2),
                                 Byte(message.flight_sw_version, 1) >>
         /\ emitted' = {"gimbalVersionChanged"}
    ELSE UNCHANGED verVars /\ emitted' = {}

-----------------------------------------------------------------------------
(* Gimbal orientation; angles in tenths of a degree, threshold 0.5 degree *)

Abs(x) == IF x < 0 THEN -x ELSE x

_handleGimbalOrientation(message) ==
    LET r == Abs(_gimbalRoll  - message.roll)  > 5
        p == Abs(_gimbalPitch - message.pitch) > 5
        y == Abs(_gimbalYaw   - message.yaw)   > 5
    IN  /\ _gimbalRoll'  = IF r THEN message.roll  ELSE _gimbalRoll
        /\ _gimbalPitch' = IF p THEN message.pitch ELSE _gimbalPitch
        /\ _gimbalYaw'   = IF y THEN message.yaw   ELSE _gimbalYaw
        /\ _gimbalData' = TRUE
        /\ emitted' = (IF r THEN {"gimbalRollChanged"} ELSE {})
                      \cup (IF p THEN {"gimbalPitchChanged"} ELSE {})
                      \cup (IF y THEN {"gimbalYawChanged"} ELSE {})
                      \cup (IF ~_gimbalData THEN {"gimbalDataChanged"} ELSE {})

-----------------------------------------------------------------------------
(* Message router *)

_mavlinkMessageReceived(message) ==
    CASE message.msgid = "AUTOPILOT_VERSION" ->
            _handleHardwareVersion(message) /\ UNCHANGED <<calVars, hbVars, oriVars>>
      [] message.msgid = "MOUNT_ORIENTATION" ->
            _handleGimbalOrientation(message) /\ UNCHANGED <<calVars, hbVars, verVars>>
      [] message.msgid = "COMMAND_ACK" ->
            _handleCommandAck(message) /\ UNCHANGED <<hbVars, verVars, oriVars>>
      [] message.msgid = "HEARTBEAT" ->
            _handleHeartBeat(message) /\ UNCHANGED <<calVars, verVars, oriVars>>
      [] OTHER ->
            UNCHANGED <<calVars, hbVars, verVars, oriVars>> /\ emitted' = {}

\* history of the heartbeat stream of the default component
HeartbeatHistory(message) ==
    IF message.msgid = "HEARTBEAT" /\ message.compid = "defaultComponentId"
    THEN LET mission == message.sub_mode = PX4_CUSTOM_SUB_MODE_AUTO_MISSION
         IN  /\ hbCount' = hbCount + 1
             /\ hbPrevMission' = mission
             /\ missionExits' = IF hbPrevMission /\ ~mission
                                THEN missionExits + 1 ELSE missionExits
    ELSE UNCHANGED <<hbCount, hbPrevMission, missionExits>>

-----------------------------------------------------------------------------
(* Parameter registry: the camera definition the facts are created from *)

ParamNames == {"CAM_MODE", "CAM_EXPMODE", "CAM_ISO", "CAM_SHUTTERSPD",
               "CAM_VIDRES", "CAM_VIDFMT", "CAM_SPOTAREA"}

\* QGCCameraControl::_settings: the parameters that have a control
_settings == <<"CAM_MODE", "CAM_EXPMODE", "CAM_ISO", "CAM_SHUTTERSPD",
               "CAM_VIDRES", "CAM_VIDFMT">>

\* QGCCameraControl::_valueExclusions: {param, value, exclusions}
_valueExclusions ==
    << [param |-> "CAM_EXPMODE", value |-> 0,
        exclusions |-> <<"CAM_ISO", "CAM_SHUTTERSPD">>] >>

SeqToSet(q) == {q[i] : i \in 1..Len(q)}

-----------------------------------------------------------------------------
(* Capture state tracker *)

VideoStatuses == {"STOPPED", "RUNNING", "UNDEFINED"}

\* QTime keeps a time of day; elapsed() and addMSecs() wrap at 24 hours
MSECS_PER_DAY == 86400000
\* the time of day at construction: half a second before midnight, so that
\* recordings of the model run across the wrap
ClockAtStart == MSECS_PER_DAY - 500
QTime_currentTime == (ClockAtStart + now) % MSECS_PER_DAY
QTime_elapsed(t) == (QTime_currentTime - t) % MSECS_PER_DAY
QTime_addMSecs(t, ms) == (t + ms) % MSECS_PER_DAY

\* _recTime.elapsed() - cap.recording_time_ms: int - uint32_t is computed
\* modulo 2^32 and converted to the int that addMSecs takes, which gives the
\* signed difference whenever that fits 32 bits (all values of the model)
UInt32DiffAsInt(a, b) == a - b

\* a restored parameter list that ignores the exclusion rules
RestoredSettings_NoRules == _settings

\* the "restore parameter list" block of _setVideoStatus
RestoredSettings ==
    LET Matches(i) == /\ _valueExclusions[i].param \in DOMAIN rawValue
                      /\ rawValue[_valueExclusions[i].param] = _valueExclusions[i].value
        exclusionList == UNION {SeqToSet(_valueExclusions[i].exclusions) :
                                   i \in {j \in 1..Len(_valueExclusions) : Matches(j)}}
    IN  SelectSeq(_settings, LAMBDA key : key \notin exclusionList)

\* the editable parameters that lose the resolution only
RecordingSettings_KeepsFormat ==
    IF ~_isCGOET
    THEN SelectSeq(_activeSettings, LAMBDA key : key # "CAM_VIDRES")
    ELSE _activeSettings

\* the editable parameters while recording: a variant other than the thermal
\* one loses the resolution and the format
RecordingSettings ==
    IF ~_isCGOET
    THEN SelectSeq(_activeSettings,
             LAMBDA key : key \notin {"CAM_VIDRES", "CAM_VIDFMT"})
    ELSE _activeSettings

\* _setVideoStatus(status): the capture state after the call and the signals
\* and sounds it emits
_setVideoStatus(status) ==
    LET oldStatus == videoStatus
        keep == [videoStatus |-> status, _recordTime |-> _recordTime,
                 _recTime |-> _recTime, _recTimer |-> _recTimer,
                 _activeSettings |-> _activeSettings, emitted |-> {}]
    IN  IF oldStatus # status
        THEN IF status = "RUNNING"
             THEN [keep EXCEPT
                     !._recordTime = 0,
                     !._recTime = QTime_currentTime,
                     !._recTimer = TRUE,
                     !._activeSettings = RecordingSettings,
                     !.emitted = {"videoSound"} \cup
                         (IF ~_isCGOET THEN {"activeSettingsChanged"} ELSE {})]
             ELSE [keep EXCEPT
                     !._recTimer = FALSE,
                     !._recordTime = 0,
                     !._activeSettings =
                         IF oldStatus = "UNDEFINED" THEN _activeSettings
                         ELSE RestoredSettings,
                     !.emitted = {"recordTimeChanged", "videoSound"} \cup
                         (IF oldStatus # "UNDEFINED" /\ RestoredSettings # _activeSettings
                          THEN {"activeSettingsChanged"} ELSE {})]
        ELSE keep

\* the slot of _recTimer
_recTimerHandler ==
    /\ _recordTime' = QTime_elapsed(_recTime)
    /\ emitted' = {"recordTimeChanged"}
    /\ UNCHANGED <<videoStatus, _recTime, _recTimer, _activeSettings>>

\* QGCCameraControl::handleCaptureStatus takes the video status of the
\* telemetry through the virtual _setVideoStatus
QGCCameraControl_handleCaptureStatus(cap) == _setVideoStatus(cap.video_status)

\* handleCaptureStatus offsetting the clock in the wrong direction
handleCaptureStatus_WrongSign(cap) ==
    LET base == QGCCameraControl_handleCaptureStatus(cap)
    IN  IF base.videoStatus = "RUNNING"
        THEN [base EXCEPT
                !._recordTime = cap.recording_time_ms,
                !._recTime = QTime_addMSecs(base._recTime,
                                 UInt32DiffAsInt(cap.recording_time_ms,
                                                 QTime_elapsed(base._recTime))),
                !.emitted = base.emitted \cup {"recordTimeChanged"}]
        ELSE base

\* handleCaptureStatus that sets the record time and leaves the clock alone
handleCaptureStatus_NoOffset(cap) ==
    LET base == QGCCameraControl_handleCaptureStatus(cap)
    IN  IF base.videoStatus = "RUNNING"
        THEN [base EXCEPT
                !._recordTime = cap.recording_time_ms,
                !.emitted = base.emitted \cup {"recordTimeChanged"}]
        ELSE base

\* handleCaptureStatus taking the record time of the telemetry whatever the
\* video status
handleCaptureStatus_AnyStatus(cap) ==
    LET base == QGCCameraControl_handleCaptureStatus(cap)
    IN  [base EXCEPT
            !._recordTime = cap.recording_time_ms,
            !._recTime = QTime_addMSecs(base._recTime,
                             UInt32DiffAsInt(QTime_elapsed(base._recTime),
                                             cap.recording_time_ms)),
            !.emitted = base.emitted \cup {"recordTimeChanged"}]

\* handleCaptureStatus(cap): the capture state after the call
handleCaptureStatus(cap) ==
    LET base == QGCCameraControl_handleCaptureStatus(cap)
    IN  IF base.videoStatus = "RUNNING"
        THEN [base EXCEPT
                !._recordTime = cap.recording_time_ms,
                !._recTime = QTime_addMSecs(base._recTime,
                                 UInt32DiffAsInt(QTime_elapsed(base._recTime),
                                                 cap.recording_time_ms)),
                !.emitted = base.emitted \cup {"recordTimeChanged"}]
        ELSE base

\* assignment of a capture state computed by one of the operators above
SetRecVars(r) ==
    /\ videoStatus' = r.videoStatus
    /\ _recordTime' = r._recordTime
    /\ _recTime' = r._recTime
    /\ _recTimer' = r._recTimer
    /\ _activeSettings' = r._activeSettings
    /\ emitted' = r.emitted

-----------------------------------------------------------------------------
(* Value reconciler *)

Min(S) == CHOOSE x \in S : \A y \in S : x <= y

\* QMap<K,V>: operator[] assignment and first()
QMapInsert(m, k, v) == [x \in (DOMAIN m) \cup {k} |-> IF x = k THEN v ELSE m[x]]
QMapFirst(m) == m[Min(DOMAIN m)]
QMapEmpty == [x \in {} |-> 0]

\* values[k] = v for each <<k, v>> of pairs, in order
RECURSIVE QMapFill(_, _, _)
QMapFill(pairs, i, m) ==
    IF i > Len(pairs) THEN m
    ELSE QMapFill(pairs, i + 1, QMapInsert(m, pairs[i][1], pairs[i][2]))

\* _validateShutterSpeed returning values.last()
_validateShutterSpeed_Last(pFact, newValue) ==
    LET list == enumValues[pFact]
        pairs == [i \in 1..Len(list) |-> <<Abs(newValue - list[i]), list[i]>>]
        m == QMapFill(pairs, 1, QMapEmpty)
    IN  m[CHOOSE k \in DOMAIN m : \A j \in DOMAIN m : j <= k]

\* foreach(QVariant v, pFact->enumValues()) { diff = fabs(newValue - v);
\* values[diff] = v; } return values.first();   (doubles; the model's values
\* are exactly representable)
_validateShutterSpeed(pFact, newValue) ==
    LET list == enumValues[pFact]
        pairs == [i \in 1..Len(list) |-> <<Abs(newValue - list[i]), list[i]>>]
    IN  QMapFirst(QMapFill(pairs, 1, QMapEmpty))

\* _validateISO keeping the first value entered under a difference
_validateISO_FirstWins(pFact, newValue) ==
    LET list == enumValues[pFact]
        D == {Abs(newValue - list[i]) : i \in 1..Len(list)}
        d == Min(D)
    IN  list[Min({i \in 1..Len(list) : Abs(newValue - list[i]) = d})]

\* uint32_t diff = abs(newValue.toInt() - v.toInt()); values[diff] = v.toUInt();
\* return values.first();   (the model's values are integers in 0 .. 2^31 - 1,
\* which toInt() and toUInt() return unchanged)
_validateISO(pFact, newValue) ==
    LET list == enumValues[pFact]
        pairs == [i \in 1..Len(list) |-> <<Abs(newValue - list[i]), list[i]>>]
    IN  QMapFirst(QMapFill(pairs, 1, QMapEmpty))

\* incomingParameter without the _updatesToSend.contains() test
incomingParameter_NoContains(pFact, newValue) ==
    LET v == IF pFact = "CAM_SHUTTERSPD" THEN _validateShutterSpeed(pFact, newValue)
             ELSE IF pFact = "CAM_ISO" THEN _validateISO(pFact, newValue)
             ELSE newValue
        adjusted == pFact \in {"CAM_SHUTTERSPD", "CAM_ISO"} /\ newValue # v
    IN  [newValue |-> IF adjusted THEN v ELSE newValue,
         _updatesToSend |-> IF adjusted
                            THEN Append(_updatesToSend, pFact) ELSE _updatesToSend,
         scheduled |-> adjusted,
         result |-> TRUE]

\* incomingParameter(pFact, newValue): newValue (passed by reference) and
\* _updatesToSend after the call, whether a flush was scheduled, and the result
incomingParameter(pFact, newValue) ==
    LET v == IF pFact = "CAM_SHUTTERSPD" THEN _validateShutterSpeed(pFact, newValue)
             ELSE IF pFact = "CAM_ISO" THEN _validateISO(pFact, newValue)
             ELSE newValue
        adjusted == pFact \in {"CAM_SHUTTERSPD", "CAM_ISO"} /\ newValue # v
        contains == pFact \in SeqToSet(_updatesToSend)
    IN  [newValue |-> IF adjusted THEN v ELSE newValue,
         _updatesToSend |-> IF adjusted /\ ~contains
                            THEN Append(_updatesToSend, pFact) ELSE _updatesToSend,
         scheduled |-> adjusted,
         result |-> TRUE]

\* _sendUpdates sending whatever the exposure mode
_sendUpdates_AnyMode ==
    IF ~_isCGOET THEN _updatesToSend ELSE <<>>

\* _sendUpdates(): the parameters sent
_sendUpdates ==
    IF ~_isCGOET
    THEN IF "CAM_EXPMODE" \in DOMAIN rawValue /\ rawValue["CAM_EXPMODE"] = 1
         THEN _updatesToSend ELSE <<>>
    ELSE <<>>

-----------------------------------------------------------------------------
(* Spot-area codec *)

\* (float)n / (float)d * 100.0f truncated towards zero, n >= 0, d > 0.  In
\* float arithmetic the product is below the exact value when the quotient
\* is exactly 53/100 or 59/100; a build that keeps extended precision gives
\* the exact value.
FloatPercent(n, d) ==
    LET k == (100 * n) \div d
    IN  IF (100 * n) % d = 0 /\ k \in {53, 59} THEN {k - 1, k} ELSE {k}

\* (uint8_t) of a non-negative float: out of range is undefined behaviour;
\* builds wrap modulo 256 or saturate
ToUInt8(v) == IF v <= 255 THEN {v} ELSE {v % 256, 255}

\* setSpotArea packing (y << 8) | x
setSpotArea_Swapped(p) ==
    LET vw == _videoSize[1]
        vh == _videoSize[2]
        fx == IF p[1] < 0 THEN 0 ELSE p[1]
        fy == IF p[2] < 0 THEN 0 ELSE p[2]
        Clamp(b) == IF b > 100 THEN 100 ELSE b
    IN  {Clamp(y) * 256 + Clamp(x) :
            x \in UNION {ToUInt8(f) : f \in FloatPercent(fx, vw)},
            y \in UNION {ToUInt8(f) : f \in FloatPercent(fy, vh)}}

\* the values setSpotArea(p) may write to CAM_SPOTAREA
setSpotArea(p) ==
    LET vw == _videoSize[1]
        vh == _videoSize[2]
        fx == IF p[1] < 0 THEN 0 ELSE p[1]
        fy == IF p[2] < 0 THEN 0 ELSE p[2]
        Clamp(b) == IF b > 100 THEN 100 ELSE b
    IN  {Clamp(x) * 256 + Clamp(y) :
            x \in UNION {ToUInt8(f) : f \in FloatPercent(fx, vw)},
            y \in UNION {ToUInt8(f) : f \in FloatPercent(fy, vh)}}

spotArea ==
    IF ~_isCGOET /\ _paramComplete /\ "CAM_SPOTAREA" \in DOMAIN rawValue
    THEN << (((rawValue["CAM_SPOTAREA"] \div 256) % 256) * _videoSize[1]) \div 100,
            ((rawValue["CAM_SPOTAREA"] % 256) * _videoSize[2]) \div 100 >>
    ELSE <<0, 0>>

-----------------------------------------------------------------------------
(* Control dispatcher *)

CameraModes == {"CAM_MODE_UNDEFINED", "CAM_MODE_PHOTO", "CAM_MODE_VIDEO"}
PhotoStatuses == {"IDLE", "IN_PROGRESS", "UNDEFINED"}
Buttons == {"BUTTON_CAMERA_SHUTTER", "BUTTON_VIDEO_SHUTTER", "OTHER"}

\* the raw value of CAM_MODE for a camera mode (CAM_MODE_PHOTO 0, CAM_MODE_VIDEO 1)
ModeValue(mode) == IF mode = "CAM_MODE_VIDEO" THEN 1 ELSE 0

\* the part of the state a dispatcher handler works on; scheduled names the
\* slot given to QTimer::singleShot(2500, ...), "none" when there is none
Camera ==
    [cameraMode |-> cameraMode, rawValue |-> rawValue, photoStatus |-> photoStatus,
     _captureStatusTimer |-> _captureStatusTimer,
     _captureInfoRetries |-> _captureInfoRetries,
     _irValid |-> _irValid, _irStatusTimer |-> _irStatusTimer,
     scheduled |-> "none", emitted |-> {}, called |-> <<>>]

\* the parameters of factChanged without the white balance
DisablesShutter_NoWhiteBalance ==
    {"CAM_EV", "CAM_EXPMODE", "CAM_ISO", "CAM_METERING", "CAM_MODE", "CAM_SHUTTERSPD"}

\* "When one of these parameters changes"
DisablesShutter ==
    {"CAM_EV", "CAM_EXPMODE", "CAM_ISO", "CAM_METERING", "CAM_MODE",
     "CAM_SHUTTERSPD", "CAM_WBMODE"}

\* factChanged(pFact): the thermal status of the thermal variant starts the
\* repeating poll and returns; a change of one of the exposure parameters or
\* of the mode disables the shutter button and requests the capture status
\* after 1000 ms (QGCCameraControl::factChanged is not part of the model)
factChanged(s, pFact) ==
    IF _isCGOET /\ pFact = "CAM_TEMPSTATUS"
    THEN [s EXCEPT !._irStatusTimer = IF s._irValid THEN @ ELSE "repeating",
                   !._irValid = TRUE,
                   !.emitted = @ \cup {"irTempChanged"}]
    ELSE LET t == [s EXCEPT !.emitted =
                       @ \cup (IF ~_isCGOET /\ pFact = "CAM_SPOTAREA"
                               THEN {"spotAreaChanged"}
                               ELSE IF _isCGOET /\ pFact = "CAM_IRPALETTE"
                               THEN {"palettetBarChanged"} ELSE {})]
         IN  IF pFact \in DisablesShutter
             THEN [t EXCEPT !.photoStatus = "UNDEFINED",
                            !._captureInfoRetries = 0,
                            !._captureStatusTimer = 1000]
             ELSE t

\* Fact::setRawValue: a value that differs is stored and reported through
\* factChanged
Fact_setRawValue(s, pFact, value) ==
    IF s.rawValue[pFact] # value
    THEN factChanged([s EXCEPT !.rawValue[pFact] = value], pFact)
    ELSE s

\* setPhotoMode() and setVideoMode()
setCameraMode(s, mode) ==
    IF s.cameraMode # mode /\ "CAM_MODE" \in DOMAIN s.rawValue
    THEN [Fact_setRawValue(s, "CAM_MODE", ModeValue(mode)) EXCEPT !.cameraMode = mode]
    ELSE s

setPhotoMode(s) == setCameraMode(s, "CAM_MODE_PHOTO")
setVideoMode(s) == setCameraMode(s, "CAM_MODE_VIDEO")

\* QGCCameraControl::takePhoto with result res: an accepted request makes
\* the photo status in-progress
QGCCameraControl_takePhoto(s, res) ==
    [s EXCEPT !.called = Append(@, "takePhoto"),
              !.photoStatus = IF res THEN "IN_PROGRESS" ELSE @]

\* takePhoto(), startVideo(), stopVideo(): the request of the base class and
\* the sound for its result res
takePhoto(s, res) ==
    [QGCCameraControl_takePhoto(s, res) EXCEPT
        !.emitted = @ \cup (IF res THEN {"cameraSound"} ELSE {"errorSound"})]

startVideo(s, res) ==
    [s EXCEPT !.called = Append(@, "startVideo"),
              !.emitted = @ \cup (IF res THEN {} ELSE {"errorSound"})]

stopVideo(s, res) ==
    [s EXCEPT !.called = Append(@, "stopVideo"),
              !.emitted = @ \cup (IF res THEN {} ELSE {"errorSound"})]

\* QGCCameraControl::toggleVideo
toggleVideo(s, res) ==
    IF videoStatus = "RUNNING" THEN stopVideo(s, res) ELSE startVideo(s, res)

\* _errorSound.play()
errorSound(s) == [s EXCEPT !.emitted = @ \cup {"errorSound"}]

\* "Do we have storage (in kb) and is camera idle?"
StorageGuardFails_NoThreshold ==
    storageTotal = 0 \/ photoStatus # "IDLE"

StorageGuardFails ==
    storageTotal = 0 \/ storageFree < 250 \/ photoStatus # "IDLE"

\* case BUTTON_CAMERA_SHUTTER taking a photo in video mode whatever the
\* video status
ShutterPressed_WhileRecording(res) ==
    IF StorageGuardFails THEN errorSound(Camera)
    ELSE IF cameraMode = "CAM_MODE_VIDEO"
    THEN IF photosInVideoMode
         THEN takePhoto(Camera, res)
         ELSE [setPhotoMode(Camera) EXCEPT !.scheduled = "_delayedTakePhoto"]
    ELSE IF cameraMode = "CAM_MODE_PHOTO" THEN takePhoto(Camera, res)
    ELSE errorSound(Camera)

\* case BUTTON_CAMERA_SHUTTER; res is the result of the capture request
ShutterPressed(res) ==
    IF StorageGuardFails THEN errorSound(Camera)
    ELSE IF cameraMode = "CAM_MODE_VIDEO"
    THEN IF photosInVideoMode
         THEN IF videoStatus # "STOPPED" THEN errorSound(Camera)
              ELSE takePhoto(Camera, res)
         ELSE IF videoStatus # "STOPPED" THEN errorSound(Camera)
              ELSE [setPhotoMode(Camera) EXCEPT !.scheduled = "_delayedTakePhoto"]
    ELSE IF cameraMode = "CAM_MODE_PHOTO" THEN takePhoto(Camera, res)
    ELSE errorSound(Camera)

\* case BUTTON_VIDEO_SHUTTER starting the recording without the delay
VideoPressed_NoDelay(res) ==
    IF StorageGuardFails THEN errorSound(Camera)
    ELSE IF cameraMode = "CAM_MODE_VIDEO" THEN toggleVideo(Camera, res)
    ELSE startVideo(setVideoMode(Camera), res)

\* case BUTTON_VIDEO_SHUTTER
VideoPressed(res) ==
    IF StorageGuardFails THEN errorSound(Camera)
    ELSE IF cameraMode = "CAM_MODE_VIDEO" THEN toggleVideo(Camera, res)
    ELSE [setVideoMode(Camera) EXCEPT !.scheduled = "_delayedStartVideo"]

\* _switchStateChanged acting on every event
_switchStateChanged_AnyState(swId, oldState, newState, res) ==
    CASE swId = "BUTTON_CAMERA_SHUTTER" -> ShutterPressed(res)
      [] swId = "BUTTON_VIDEO_SHUTTER" -> VideoPressed(res)
      [] OTHER -> Camera

\* _switchStateChanged(swId, oldState, newState); oldState is unused
_switchStateChanged(swId, oldState, newState, res) ==
    IF newState = 1
    THEN CASE swId = "BUTTON_CAMERA_SHUTTER" -> ShutterPressed(res)
           [] swId = "BUTTON_VIDEO_SHUTTER" -> VideoPressed(res)
           [] OTHER -> Camera
    ELSE Camera

_delayedTakePhoto(res) == takePhoto(Camera, res)
_delayedStartVideo(res) == startVideo(Camera, res)

\* assignment of a camera state computed by one of the operators above
SetCamera(s) ==
    /\ cameraMode' = s.cameraMode
    /\ rawValue' = s.rawValue
    /\ photoStatus' = s.photoStatus
    /\ _captureStatusTimer' = s._captureStatusTimer
    /\ _captureInfoRetries' = s._captureInfoRetries
    /\ _irValid' = s._irValid
    /\ _irStatusTimer' = s._irStatusTimer
    /\ emitted' = s.emitted
    /\ called' = s.called

-----------------------------------------------------------------------------
(* Initial state: the state the constructor leaves, with the parameters of  *)
(* the camera definition loaded                                             *)

InitRegistry(expmode) ==
    [n \in ParamNames |->
        CASE n = "CAM_EXPMODE" -> expmode
          [] n = "CAM_ISO" -> 100
          [] n = "CAM_SHUTTERSPD" -> 1
          [] OTHER -> 0]

InitEnumValues ==
    [n \in {"CAM_SHUTTERSPD", "CAM_ISO"} |->
        IF n = "CAM_ISO" THEN <<100, 200, 400>> ELSE <<1, 3, 7>>]

\* the gimbal and flight-mode members after construction
InitGimbal ==
    /\ _gimbalCalOn = FALSE
    /\ _gimbalProgress = 0
    /\ _gimbalTimer = -1
    /\ _inMissionMode = FALSE
    /\ requestAllCalls = 0
    /\ _gimbalVersion = <<>>
    /\ _gimbalRoll = 0 /\ _gimbalPitch = 0 /\ _gimbalYaw = 0
    /\ _gimbalData = FALSE

\* the capture state tracker after construction
InitCapture ==
    /\ videoStatus = "UNDEFINED"
    /\ _recordTime = 0
    /\ _recTime = 0
    /\ _recTimer = FALSE

\* the camera state of the base class before any telemetry
InitCamera ==
    /\ cameraMode = "CAM_MODE_UNDEFINED"
    /\ photoStatus = "UNDEFINED"
    /\ storageTotal = 0 /\ storageFree = 0
    /\ photosInVideoMode = FALSE

\* nothing pending, nothing observed
InitIdle ==
    /\ _captureStatusTimer = -1 /\ _captureInfoRetries = 0
    /\ _irValid = FALSE /\ _irStatusTimer = "inactive"
    /\ _updatesToSend = <<>>
    /\ singleShots = <<>>
    /\ now = 0
    /\ emitted = {}
    /\ sent = <<>>
    /\ called = <<>>
    /\ lastOp = [op |-> "constructor", arg |-> 0, pre |-> 0]
    /\ hbCount = 0 /\ hbPrevMission = FALSE /\ missionExits = 0
    /\ lastAck = -1 /\ syncR = -1 /\ syncAt = 0

InitDriver == InitGimbal /\ InitCapture /\ InitCamera /\ InitIdle

Init ==
    /\ InitDriver
    /\ _isCGOET \in BOOLEAN
    /\ _paramComplete = TRUE
    /\ _videoSize = <<1280, 720>>
    /\ \E expmode \in {0, 1} : rawValue = InitRegistry(expmode)
    /\ enumValues = InitEnumValues
    /\ _activeSettings = RestoredSettings

-----------------------------------------------------------------------------
(* Actions *)

\* the part of the state a handler starts from, kept in lastOp
Pre == [calOn |-> _gimbalCalOn, timer |-> _gimbalTimer >= 0,
        hasVersion |-> _gimbalVersion # <<>>,
        pending |-> SeqToSet(_updatesToSend)]

IsCalibrationAck(message) ==
    /\ message.msgid = "COMMAND_ACK"
    /\ message.command = "MAV_CMD_PREFLIGHT_CALIBRATION"
    /\ message.compid = "MAV_COMP_ID_GIMBAL"

\* a MAVLink message arrives (Vehicle::mavlinkMessageReceived)
Receive(message) ==
    /\ (message.msgid = "HEARTBEAT" /\ message.compid = "defaultComponentId")
          => hbCount < MaxHeartbeats
    /\ _mavlinkMessageReceived(message)
    /\ HeartbeatHistory(message)
    /\ lastAck' = IF IsCalibrationAck(message) THEN message.progress ELSE lastAck
    /\ lastOp' = [op |-> "_mavlinkMessageReceived", arg |-> message, pre |-> Pre]
    /\ sent' = <<>> /\ called' = <<>>
    /\ UNCHANGED <<recVars, parVars, cfgVars, camVars, now, syncR, syncAt>>

\* the single-shot _gimbalTimer expires and its slot runs
GimbalTimerFires ==
    /\ _gimbalTimer = 0
    /\ _gimbalTimer' = -1
    /\ _gimbalCalTimeout
    /\ lastOp' = [op |-> "_gimbalCalTimeout", arg |-> 0, pre |-> Pre]
    /\ sent' = <<>> /\ called' = <<>>
    /\ UNCHANGED <<hbVars, verVars, oriVars, recVars, parVars, cfgVars, camVars, now, histVars>>

\* d ms pass, within a horizon of d * quanta; no pending timer is overrun
AdvanceTime(d, quanta) ==
    /\ now + d <= quanta * d
    /\ _gimbalTimer = -1 \/ _gimbalTimer >= d
    /\ _captureStatusTimer = -1 \/ _captureStatusTimer >= d
    /\ \A i \in 1..Len(singleShots) : singleShots[i].ms >= d
    /\ now' = now + d
    /\ _gimbalTimer' = IF _gimbalTimer = -1 THEN -1 ELSE _gimbalTimer - d
    /\ _captureStatusTimer' =
          IF _captureStatusTimer = -1 THEN -1 ELSE _captureStatusTimer - d
    /\ singleShots' = [i \in 1..Len(singleShots) |->
                          [singleShots[i] EXCEPT !.ms = @ - d]]
    /\ emitted' = {} /\ sent' = <<>> /\ called' = <<>>
    /\ lastOp' = [op |-> "time", arg |-> d, pre |-> Pre]
    /\ UNCHANGED <<_gimbalCalOn, _gimbalProgress, hbVars, verVars, oriVars, recVars,
                   rawValue, enumValues, _updatesToSend, cfgVars, baseVars,
                   _captureInfoRetries, irVars, histVars>>

\* the base class reports a video status (command result or telemetry)
SetVideoStatus(status) ==
    /\ SetRecVars(_setVideoStatus(status))
    /\ syncR' = IF status = videoStatus THEN syncR ELSE -1
    /\ syncAt' = IF status = videoStatus THEN syncAt ELSE 0
    /\ lastOp' = [op |-> "_setVideoStatus", arg |-> status, pre |-> Pre]
    /\ sent' = <<>> /\ called' = <<>>
    /\ UNCHANGED <<calVars, hbVars, verVars, oriVars, parVars, cfgVars, camVars, now,
                   hbCount, hbPrevMission, missionExits, lastAck>>

\* the repeating _recTimer fires (its 333 ms period is not modelled: a tick
\* may come at any time while the timer is active)
RecTimerFires ==
    /\ _recTimer
    /\ _recTimerHandler
    /\ lastOp' = [op |-> "_recTimerHandler", arg |-> 0, pre |-> Pre]
    /\ sent' = <<>> /\ called' = <<>>
    /\ UNCHANGED <<calVars, hbVars, verVars, oriVars, parVars, cfgVars, camVars, now, histVars>>

\* capture-status telemetry arrives
HandleCaptureStatus(cap) ==
    /\ SetRecVars(handleCaptureStatus(cap))
    /\ syncR' = IF cap.video_status = "RUNNING" THEN cap.recording_time_ms ELSE -1
    /\ syncAt' = IF cap.video_status = "RUNNING" THEN now ELSE 0
    /\ lastOp' = [op |-> "handleCaptureStatus", arg |-> cap, pre |-> Pre]
    /\ sent' = <<>> /\ called' = <<>>
    /\ UNCHANGED <<calVars, hbVars, verVars, oriVars, parVars, cfgVars, camVars, now,
                   hbCount, hbPrevMission, missionExits, lastAck>>

\* IncomingParameter with a flush timer that is restarted: the pending flush
\* is replaced
IncomingParameter_Restart(pFact, newValue) ==
    LET r == incomingParameter(pFact, newValue)
        others == SelectSeq(singleShots, LAMBDA c : c.slot # "_sendUpdates")
    IN  /\ r.scheduled => Len(singleShots) < MaxSingleShots
        /\ _updatesToSend' = r._updatesToSend
        /\ singleShots' = IF r.scheduled
                          THEN Append(others,
                                      [slot |-> "_sendUpdates", ms |-> 100, at |-> now])
                          ELSE singleShots
        /\ rawValue' = IF r.result THEN [rawValue EXCEPT ![pFact] = r.newValue]
                       ELSE rawValue
        /\ emitted' = {} /\ sent' = <<>> /\ called' = <<>>
        /\ lastOp' = [op |-> "incomingParameter",
                      arg |-> [pFact |-> pFact, newValue |-> newValue,
                               adjusted |-> r.scheduled],
                      pre |-> Pre]
        /\ UNCHANGED <<calVars, hbVars, verVars, oriVars, recVars, enumValues,
                       cfgVars, camVars, now, histVars>>

\* a parameter value arrives from the camera: incomingParameter() may adjust
\* it and schedule a flush, then the caller stores it in the fact
IncomingParameter(pFact, newValue) ==
    LET r == incomingParameter(pFact, newValue)
    IN  /\ r.scheduled => Len(singleShots) < MaxSingleShots
        /\ _updatesToSend' = r._updatesToSend
        /\ singleShots' = IF r.scheduled
                          THEN Append(singleShots,
                                      [slot |-> "_sendUpdates", ms |-> 100, at |-> now])
                          ELSE singleShots
        /\ rawValue' = IF r.result THEN [rawValue EXCEPT ![pFact] = r.newValue]
                       ELSE rawValue
        /\ emitted' = {} /\ sent' = <<>> /\ called' = <<>>
        /\ lastOp' = [op |-> "incomingParameter",
                      arg |-> [pFact |-> pFact, newValue |-> newValue,
                               adjusted |-> r.scheduled],
                      pre |-> Pre]
        /\ UNCHANGED <<calVars, hbVars, verVars, oriVars, recVars, enumValues,
                       cfgVars, camVars, now, histVars>>

\* SendUpdatesFires clearing the pending list only when it was sent
SendUpdatesFires_ClearOnSend ==
    \E i \in 1..Len(singleShots) :
        /\ singleShots[i].slot = "_sendUpdates" /\ singleShots[i].ms = 0
        /\ singleShots' = [j \in 1..(Len(singleShots) - 1) |->
                              IF j < i THEN singleShots[j] ELSE singleShots[j + 1]]
        /\ sent' = _sendUpdates /\ called' = <<>>
        /\ _updatesToSend' = IF _sendUpdates = <<>> THEN _updatesToSend ELSE <<>>
        /\ emitted' = {}
        /\ lastOp' = [op |-> "_sendUpdates", arg |-> 0, pre |-> Pre]
        /\ UNCHANGED <<calVars, hbVars, verVars, oriVars, recVars, rawValue, enumValues,
                       cfgVars, camVars, now, histVars>>

\* a pending singleShot(100, _sendUpdates) expires and the slot runs
SendUpdatesFires ==
    \E i \in 1..Len(singleShots) :
        /\ singleShots[i].slot = "_sendUpdates" /\ singleShots[i].ms = 0
        /\ singleShots' = [j \in 1..(Len(singleShots) - 1) |->
                              IF j < i THEN singleShots[j] ELSE singleShots[j + 1]]
        /\ sent' = _sendUpdates /\ called' = <<>>
        /\ _updatesToSend' = <<>>
        /\ emitted' = {}
        /\ lastOp' = [op |-> "_sendUpdates", arg |-> 0, pre |-> Pre]
        /\ UNCHANGED <<calVars, hbVars, verVars, oriVars, recVars, rawValue, enumValues,
                       cfgVars, camVars, now, histVars>>

\* validateParameter that checks the shutter speed only
validateParameter_ShutterOnly(pFact, newValue) ==
    IF pFact = "CAM_SHUTTERSPD" THEN _validateShutterSpeed(pFact, newValue) = newValue
    ELSE TRUE

\* validateParameter(pFact, newValue): nothing changes; the result and the
\* nearest allowed value it was compared with are kept in lastOp
validateParameter(pFact, newValue) ==
    IF pFact = "CAM_SHUTTERSPD" THEN _validateShutterSpeed(pFact, newValue) = newValue
    ELSE IF pFact = "CAM_ISO" THEN _validateISO(pFact, newValue) = newValue
    ELSE TRUE

ValidateParameter(pFact, newValue) ==
    /\ lastOp' = [op |-> "validateParameter",
                  arg |-> [pFact |-> pFact, newValue |-> newValue,
                           result |-> validateParameter(pFact, newValue)],
                  pre |-> Pre]
    /\ emitted' = {} /\ sent' = <<>> /\ called' = <<>>
    /\ UNCHANGED <<calVars, hbVars, verVars, oriVars, recVars, parVars, cfgVars, camVars,
                   now, histVars>>

\* setSpotArea(p)
SetSpotArea(p) ==
    /\ IF ~_isCGOET /\ _paramComplete /\ "CAM_SPOTAREA" \in DOMAIN rawValue
       THEN \E coords \in setSpotArea(p) :
                rawValue' = [rawValue EXCEPT !["CAM_SPOTAREA"] = coords]
       ELSE UNCHANGED rawValue
    /\ emitted' = {} /\ sent' = <<>> /\ called' = <<>>
    /\ lastOp' = [op |-> "setSpotArea", arg |-> p, pre |-> Pre]
    /\ UNCHANGED <<calVars, hbVars, verVars, oriVars, recVars, enumValues,
                   _updatesToSend, singleShots, cfgVars, camVars, now, histVars>>


\* the part of the state a dispatcher handler starts from, kept in lastOp
PreCamera == [cameraMode |-> cameraMode, photoStatus |-> photoStatus,
              videoStatus |-> videoStatus, singleShots |-> singleShots,
              timer |-> _captureStatusTimer, retries |-> _captureInfoRetries]

RemoveAt(q, i) == [j \in 1..(Len(q) - 1) |-> IF j < i THEN q[j] ELSE q[j + 1]]

\* a control-button event arrives (TyphoonHM4Interface::switchStateChanged)
SwitchStateChanged(swId, oldState, newState, res) ==
    LET s == _switchStateChanged(swId, oldState, newState, res)
    IN  /\ s.scheduled # "none" => Len(singleShots) < MaxSingleShots
        /\ SetCamera(s)
        /\ singleShots' = IF s.scheduled # "none"
                          THEN Append(singleShots,
                                      [slot |-> s.scheduled, ms |-> 2500, at |-> now])
                          ELSE singleShots
        /\ sent' = <<>>
        /\ lastOp' = [op |-> "_switchStateChanged",
                      arg |-> [swId |-> swId, oldState |-> oldState,
                               newState |-> newState],
                      pre |-> PreCamera]
        /\ UNCHANGED <<calVars, hbVars, verVars, oriVars, recVars, enumValues,
                       _updatesToSend, cfgVars, storageTotal, storageFree,
                       photosInVideoMode, now, histVars>>

\* a pending singleShot(2500, _delayedTakePhoto) expires and the slot runs
DelayedTakePhotoFires(res) ==
    \E i \in 1..Len(singleShots) :
        /\ singleShots[i].slot = "_delayedTakePhoto" /\ singleShots[i].ms = 0
        /\ singleShots' = RemoveAt(singleShots, i)
        /\ SetCamera(_delayedTakePhoto(res))
        /\ sent' = <<>>
        /\ lastOp' = [op |-> "_delayedTakePhoto", arg |-> singleShots[i],
                      pre |-> PreCamera]
        /\ UNCHANGED <<calVars, hbVars, verVars, oriVars, recVars, enumValues,
                       _updatesToSend, cfgVars, storageTotal, storageFree,
                       photosInVideoMode, now, histVars>>

\* a pending singleShot(2500, _delayedStartVideo) expires and the slot runs
DelayedStartVideoFires(res) ==
    \E i \in 1..Len(singleShots) :
        /\ singleShots[i].slot = "_delayedStartVideo" /\ singleShots[i].ms = 0
        /\ singleShots' = RemoveAt(singleShots, i)
        /\ SetCamera(_delayedStartVideo(res))
        /\ sent' = <<>>
        /\ lastOp' = [op |-> "_delayedStartVideo", arg |-> singleShots[i],
                      pre |-> PreCamera]
        /\ UNCHANGED <<calVars, hbVars, verVars, oriVars, recVars, enumValues,
                       _updatesToSend, cfgVars, storageTotal, storageFree,
                       photosInVideoMode, now, histVars>>

\* capture-status telemetry reports the photo status (the base class stores
\* it with _setPhotoStatus)
PhotoStatusReported(status) ==
    /\ photoStatus # status
    /\ photoStatus' = status
    /\ emitted' = {} /\ sent' = <<>> /\ called' = <<>>
    /\ lastOp' = [op |-> "_setPhotoStatus", arg |-> status, pre |-> PreCamera]
    /\ UNCHANGED <<calVars, hbVars, verVars, oriVars, recVars, parVars, cfgVars,
                   cameraMode, storageTotal, storageFree, photosInVideoMode,
                   _captureStatusTimer, _captureInfoRetries, irVars, now, histVars>>

\* a fact reports a change of its value (telemetry or an edit) through
\* factChanged(pFact); the handler does not read the value, and the
\* registry of the model keeps the values its own handlers write
FactChanged(pFact) ==
    /\ SetCamera(factChanged(Camera, pFact))
    /\ sent' = <<>>
    /\ lastOp' = [op |-> "factChanged", arg |-> pFact, pre |-> PreCamera]
    /\ UNCHANGED <<calVars, hbVars, verVars, oriVars, recVars, enumValues,
                   _updatesToSend, singleShots, cfgVars, storageTotal, storageFree,
                   photosInVideoMode, now, histVars>>

\* the single-shot _captureStatusTimer expires: the base class requests the
\* capture status of the camera
CaptureStatusTimerFires ==
    /\ _captureStatusTimer = 0
    /\ _captureStatusTimer' = -1
    /\ called' = <<"requestCaptureStatus">>
    /\ emitted' = {} /\ sent' = <<>>
    /\ lastOp' = [op |-> "_requestCaptureStatus", arg |-> 0, pre |-> PreCamera]
    /\ UNCHANGED <<calVars, hbVars, verVars, oriVars, recVars, parVars, cfgVars,
                   baseVars, _captureInfoRetries, irVars, now, histVars>>

\* a capture-status request fails and the base class counts it
CaptureStatusRequestFailed ==
    /\ _captureInfoRetries < MaxRetries
    /\ _captureInfoRetries' = _captureInfoRetries + 1
    /\ emitted' = {} /\ sent' = <<>> /\ called' = <<>>
    /\ lastOp' = [op |-> "_mavCommandResult", arg |-> 0, pre |-> PreCamera]
    /\ UNCHANGED <<calVars, hbVars, verVars, oriVars, recVars, parVars, cfgVars,
                   baseVars, _captureStatusTimer, irVars, now, histVars>>

-----------------------------------------------------------------------------
(* Specifications: the driver under the message streams of each component  *)

\* gimbal calibration: command acks, the stall timer, time in steps of 1 s
NextCalibration ==
    \/ \E message \in AckMessages : Receive(message)
    \/ GimbalTimerFires
    \/ AdvanceTime(1000, MaxQuanta)

SpecCalibration == Init /\ [][NextCalibration]_vars

\* heartbeats and capability responses
NextTelemetry ==
    \E message \in HeartbeatMessages \cup VersionMessages : Receive(message)

SpecTelemetry == Init /\ [][NextTelemetry]_vars

\* capture state tracker: status reports, capture-status telemetry, the
\* recording tick, time in steps of 100 ms
RecordingTimes == {0, 300, 900}
CaptureStatuses ==
    {[video_status |-> v, recording_time_ms |-> r] :
        v \in VideoStatuses, r \in RecordingTimes}

NextCapture ==
    \/ \E status \in VideoStatuses : SetVideoStatus(status)
    \/ \E cap \in CaptureStatuses : HandleCaptureStatus(cap)
    \/ RecTimerFires
    \/ \E v \in {0, 1} : IncomingParameter("CAM_EXPMODE", v)
    \/ AdvanceTime(100, MaxQuanta)

SpecCapture == Init /\ [][NextCapture]_vars

\* value reconciler: inbound parameter values, the deferred flush, time in
\* steps of 100 ms
IncomingValues(pFact) ==
    CASE pFact = "CAM_ISO" -> {100, 150, 390}
      [] pFact = "CAM_SHUTTERSPD" -> {1, 2, 6}
      [] OTHER -> {0, 1}

NextParams ==
    \/ \E pFact \in {"CAM_ISO", "CAM_SHUTTERSPD", "CAM_EXPMODE"} :
          \E v \in IncomingValues(pFact) : IncomingParameter(pFact, v)
    \/ SendUpdatesFires
    \/ AdvanceTime(100, MaxFlushQuanta)

SpecParams == Init /\ [][NextParams]_vars

\* the same under the scheduling of the event loop: time passes and a callback
\* whose delay has expired runs; values arrive while the horizon leaves time
\* for their flush
NextParamsFair ==
    \/ /\ now + 100 <= MaxFlushQuanta * 100
       /\ \E pFact \in {"CAM_ISO", "CAM_SHUTTERSPD", "CAM_EXPMODE"} :
             \E v \in IncomingValues(pFact) : IncomingParameter(pFact, v)
    \/ SendUpdatesFires
    \/ AdvanceTime(100, MaxFlushQuanta)

SpecParamsFair ==
    /\ Init /\ [][NextParamsFair]_vars
    /\ WF_vars(SendUpdatesFires)
    /\ WF_vars(AdvanceTime(100, MaxFlushQuanta))

\* nearest-value functions over all allowed-value lists and measured values
\* within the bounds
EnumLists == UNION {[1..n -> 0..MaxValue] : n \in 1..MaxEnum}
MeasuredValues == 0..(MaxValue + 1)

InitValidate ==
    /\ InitDriver
    /\ _isCGOET = FALSE /\ _paramComplete = TRUE /\ _videoSize = <<1280, 720>>
    /\ rawValue = InitRegistry(1)
    /\ \E list \in EnumLists :
          enumValues = [n \in {"CAM_SHUTTERSPD", "CAM_ISO"} |-> list]
    /\ _activeSettings = RestoredSettings

NextValidate ==
    \E pFact \in {"CAM_ISO", "CAM_SHUTTERSPD", "CAM_EXPMODE"} :
        \E v \in MeasuredValues : ValidateParameter(pFact, v)

SpecValidate == InitValidate /\ [][NextValidate]_vars

\* spot-area codec over frame sizes and points within the bounds
FrameDims == (1..MaxFrame) \cup {100}
Coords == (-1..MaxCoord) \cup {53, 99, 100, 300}

InitSpot ==
    /\ InitDriver
    /\ _isCGOET \in BOOLEAN /\ _paramComplete \in BOOLEAN
    /\ _videoSize \in FrameDims \X FrameDims
    /\ rawValue = InitRegistry(1)
    /\ enumValues = InitEnumValues
    /\ _activeSettings = RestoredSettings

NextSpot == \E p \in Coords \X Coords : SetSpotArea(p)

SpecSpot == InitSpot /\ [][NextSpot]_vars

\* the router under messages of every type and source
RouterMessages ==
    {m \in AckMessages : m.progress \in {99, 255}}
        \cup {m \in HeartbeatMessages : m.sub_mode # 3}
        \cup {m \in VersionMessages : m.flight_sw_version = 16909060}
        \cup {m \in OrientationMessages : m.roll # 4}
        \cup OtherMessages

NextRouter == \E message \in RouterMessages : Receive(message)

SpecRouter == Init /\ [][NextRouter]_vars

\* control dispatcher: button events and the deferred capture requests, time
\* in steps of 500 ms, from every camera state telemetry can have reported
Storages == {<<0, 0>>, <<1000, 249>>, <<1000, 250>>}

InitButtons ==
    /\ InitGimbal /\ InitIdle
    /\ videoStatus \in VideoStatuses
    /\ _recordTime = 0
    /\ _recTimer = (videoStatus = "RUNNING")
    /\ _recTime = IF videoStatus = "RUNNING" THEN ClockAtStart ELSE 0
    /\ cameraMode \in CameraModes
    /\ photoStatus \in {"IDLE", "IN_PROGRESS"}
    /\ \E st \in Storages : storageTotal = st[1] /\ storageFree = st[2]
    /\ photosInVideoMode \in BOOLEAN
    /\ _isCGOET = FALSE /\ _paramComplete = TRUE /\ _videoSize = <<1280, 720>>
    /\ rawValue = [InitRegistry(1) EXCEPT !["CAM_MODE"] = ModeValue(cameraMode)]
    /\ enumValues = InitEnumValues
    /\ _activeSettings =
          IF videoStatus = "RUNNING"
          THEN SelectSeq(RestoredSettings,
                         LAMBDA key : key \notin {"CAM_VIDRES", "CAM_VIDFMT"})
          ELSE RestoredSettings

NextButtons ==
    \/ \E swId \in Buttons, oldState \in {0, 1}, newState \in {0, 1}, res \in BOOLEAN :
          SwitchStateChanged(swId, oldState, newState, res)
    \/ \E res \in BOOLEAN : DelayedTakePhotoFires(res)
    \/ \E res \in BOOLEAN : DelayedStartVideoFires(res)
    \/ PhotoStatusReported("IDLE")
    \/ CaptureStatusTimerFires
    \/ AdvanceTime(500, MaxQuanta)

SpecButtons == InitButtons /\ [][NextButtons]_vars

\* deferred callbacks of both kinds together: snapped ISO values with their
\* flush, button presses with their settling delay, time in steps of 100 ms
InitDeferred ==
    /\ InitGimbal /\ InitIdle
    /\ videoStatus = "STOPPED" /\ _recordTime = 0 /\ _recTimer = FALSE /\ _recTime = 0
    /\ cameraMode = "CAM_MODE_UNDEFINED" /\ photoStatus = "IDLE"
    /\ storageTotal = 1000 /\ storageFree = 250
    /\ photosInVideoMode = FALSE
    /\ _isCGOET = FALSE /\ _paramComplete = TRUE /\ _videoSize = <<1280, 720>>
    /\ rawValue = InitRegistry(1)
    /\ enumValues = InitEnumValues
    /\ _activeSettings = RestoredSettings

NextDeferred ==
    \/ IncomingParameter("CAM_ISO", 150)
    \/ SendUpdatesFires
    \/ \E swId \in {"BUTTON_CAMERA_SHUTTER", "BUTTON_VIDEO_SHUTTER"} :
          SwitchStateChanged(swId, 0, 1, TRUE)
    \/ DelayedTakePhotoFires(TRUE)
    \/ DelayedStartVideoFires(TRUE)
    \/ PhotoStatusReported("IDLE")
    \/ CaptureStatusTimerFires
    \/ AdvanceTime(100, MaxSettleQuanta)

SpecDeferred == InitDeferred /\ [][NextDeferred]_vars

\* parameter changes against button presses: change notifications of the
\* exposure parameters and of others on both variants, presses, the
\* capture-status request and its outcomes, time in steps of 500 ms; the
\* horizon ends before a settling delay of 2500 ms can expire
ChangedFacts ==
    {"CAM_EV", "CAM_EXPMODE", "CAM_ISO", "CAM_METERING", "CAM_MODE", "CAM_SHUTTERSPD",
     "CAM_WBMODE", "CAM_TEMPSTATUS", "CAM_IRPALETTE"}

InitExposure ==
    /\ InitGimbal /\ InitIdle
    /\ videoStatus = "STOPPED" /\ _recordTime = 0 /\ _recTimer = FALSE /\ _recTime = 0
    /\ cameraMode \in {"CAM_MODE_PHOTO", "CAM_MODE_VIDEO"}
    /\ photoStatus = "IDLE"
    /\ storageTotal = 1000 /\ storageFree = 250
    /\ photosInVideoMode = FALSE
    /\ _isCGOET \in BOOLEAN /\ _paramComplete = TRUE /\ _videoSize = <<1280, 720>>
    /\ rawValue = [InitRegistry(1) EXCEPT !["CAM_MODE"] = ModeValue(cameraMode)]
    /\ enumValues = InitEnumValues
    /\ _activeSettings = RestoredSettings

NextExposure ==
    \/ \E pFact \in ChangedFacts : FactChanged(pFact)
    \/ \E swId \in {"BUTTON_CAMERA_SHUTTER", "BUTTON_VIDEO_SHUTTER"} :
          SwitchStateChanged(swId, 0, 1, TRUE)
    \/ CaptureStatusTimerFires
    \/ CaptureStatusRequestFailed
    \/ PhotoStatusReported("IDLE")
    \/ AdvanceTime(500, MaxExposureQuanta)

SpecExposure == InitExposure /\ [][NextExposure]_vars

-----------------------------------------------------------------------------
(* Claims *)

\* C1: when the stall timer fires and the last calibration ack handled had
\* progress 99 (no later ack arrived), calibration is no longer active and
\* the published progress is 100.
C1_StallRecovery ==
    (lastOp.op = "_gimbalCalTimeout" /\ lastAck = 99)
        => (~_gimbalCalOn /\ _gimbalProgress = 100)

\* C1 witness: the timer fired 5000 ms after a progress-99 ack and completed
\* the calibration.
C1_Witness ==
    /\ lastOp.op = "_gimbalCalTimeout" /\ lastAck = 99
    /\ lastOp.pre.calOn /\ now >= 5000
    /\ ~_gimbalCalOn /\ _gimbalProgress = 100

\* C2: the number of full parameter resynchronizations equals the number of
\* mission -> non-mission transitions in the heartbeat stream of the default
\* component.
C2_EdgeTriggered == requestAllCalls = missionExits

\* C2 witness: one transition out of mission mode followed by repeated
\* non-mission heartbeats, and exactly one resynchronization.
C2_Witness ==
    /\ missionExits = 1 /\ hbCount >= 4 /\ ~hbPrevMission
    /\ lastOp.op = "_mavlinkMessageReceived" /\ lastOp.arg.msgid = "HEARTBEAT"
    /\ lastOp.arg.compid = "defaultComponentId"
    /\ ~_inMissionMode /\ requestAllCalls = 1

IsTerminalAck(op) ==
    /\ op.op = "_mavlinkMessageReceived" /\ IsCalibrationAck(op.arg)
    /\ op.arg.progress = 255 /\ op.pre.calOn

\* C7: an ack with progress 255 received while calibration is active leaves
\* calibration inactive with progress 100 and the stall timer stopped; and
\* whenever calibration is inactive no stall timer is pending (it is started
\* only by a progress-99 ack, which makes calibration active).
C7_TerminalAck ==
    /\ IsTerminalAck(lastOp)
          => (~_gimbalCalOn /\ _gimbalProgress = 100 /\ _gimbalTimer = -1)
    /\ ~_gimbalCalOn => _gimbalTimer = -1

\* C7 witness: the terminal ack arrived while the stall timer was pending.
C7_Witness ==
    /\ IsTerminalAck(lastOp) /\ lastOp.pre.timer
    /\ ~_gimbalCalOn /\ _gimbalProgress = 100 /\ _gimbalTimer = -1

IsVersionResponse(op) ==
    op.op = "_mavlinkMessageReceived" /\ op.arg.msgid = "AUTOPILOT_VERSION"

\* C8 as claimed: a capability response from the gimbal component that is
\* not the first one emits no gimbal-version notification.
C8_FirstResponseOnly ==
    (IsVersionResponse(lastOp) /\ lastOp.pre.hasVersion)
        => "gimbalVersionChanged" \notin emitted

\* C8 amended: every capability response from the gimbal component stores
\* the decoded version and emits the notification; responses from other
\* components emit none.
C8_EveryGimbalResponse ==
    IsVersionResponse(lastOp) =>
        IF lastOp.arg.compid = "MAV_COMP_ID_GIMBAL"
        THEN /\ "gimbalVersionChanged" \in emitted
             /\ _gimbalVersion = << Byte(lastOp.arg.flight_sw_version, 3),
                                    Byte(lastOp.arg.flight_sw_version, 2),
                                    Byte(lastOp.arg.flight_sw_version, 1) >>
        ELSE "gimbalVersionChanged" \notin emitted

\* C8 witness: a second response from the gimbal component, notified again.
C8_Witness ==
    /\ IsVersionResponse(lastOp) /\ lastOp.pre.hasVersion
    /\ lastOp.arg.compid = "MAV_COMP_ID_GIMBAL"
    /\ "gimbalVersionChanged" \in emitted

\* C10 as claimed: the published progress lies in 0..100 and does not
\* decrease from one ack to the next while calibration stays active.
C10_ProgressPercent ==
    [][/\ _gimbalProgress' \in 0..100
       /\ (_gimbalCalOn /\ _gimbalCalOn') => _gimbalProgress' >= _gimbalProgress]_vars

\* C10 amended: the published progress lies in 0..254; after a calibration
\* ack with progress byte p < 255 it is p itself, after a terminal ack or a
\* stall timeout that completes the calibration it is 100.
C10_ProgressIsLastByte ==
    /\ _gimbalProgress \in 0..254
    /\ (lastOp.op = "_mavlinkMessageReceived" /\ IsCalibrationAck(lastOp.arg)
        /\ lastOp.arg.progress < 255) => _gimbalProgress = lastOp.arg.progress
    /\ IsTerminalAck(lastOp) => _gimbalProgress = 100
    /\ (lastOp.op = "_gimbalCalTimeout" /\ lastOp.pre.calOn /\ ~_gimbalCalOn)
          => _gimbalProgress = 100

\* C10 witness: while calibration is active an ack publishes a progress
\* above 100.
C10_Witness ==
    /\ lastOp.op = "_mavlinkMessageReceived" /\ IsCalibrationAck(lastOp.arg)
    /\ lastOp.pre.calOn /\ _gimbalCalOn /\ _gimbalProgress = 150

\* C3: capture-status telemetry that leaves the video status Running sets
\* the record time to its recording_time_ms R and offsets the clock so that
\* its elapsed time is R; every later tick of that recording reports R plus
\* the time passed since the telemetry; the tick is active while Running.
C3_Resync ==
    /\ (lastOp.op = "handleCaptureStatus" /\ videoStatus = "RUNNING")
          => /\ _recordTime = lastOp.arg.recording_time_ms
             /\ QTime_elapsed(_recTime) = lastOp.arg.recording_time_ms
    /\ (lastOp.op = "_recTimerHandler" /\ syncR >= 0)
          => _recordTime = syncR + (now - syncAt)
    /\ videoStatus = "RUNNING" => _recTimer

\* C3 witness: recording started at 0, telemetry with 900 arrived at 1000 ms,
\* and a later tick shows 900 plus the time since.
C3_Witness ==
    /\ lastOp.op = "_recTimerHandler" /\ videoStatus = "RUNNING"
    /\ syncR = 900 /\ syncAt = 1000 /\ now > 1000
    /\ _recTime = QTime_addMSecs(ClockAtStart, 100)
    /\ _recordTime = 900 + (now - 1000)

\* C4: _updatesToSend never holds a parameter name twice.
C4_NoDuplicates ==
    \A i, j \in 1..Len(_updatesToSend) :
        i # j => _updatesToSend[i] # _updatesToSend[j]

\* C4 witness: a parameter already pending is adjusted again before the
\* flush; two flush callbacks are pending.
C4_Witness ==
    /\ lastOp.op = "incomingParameter" /\ lastOp.arg.adjusted
    /\ lastOp.arg.pFact \in lastOp.pre.pending
    /\ Len(singleShots) >= 2
    /\ Len(_updatesToSend) = 1

Chosen(pFact, m) ==
    IF pFact = "CAM_SHUTTERSPD" THEN _validateShutterSpeed(pFact, m)
    ELSE _validateISO(pFact, m)

\* C5: for every measured value m the value chosen for shutter speed and
\* for ISO is an allowed value at minimal absolute distance from m, and is
\* m itself when m is allowed.
C5_Nearest ==
    \A pFact \in {"CAM_SHUTTERSPD", "CAM_ISO"} : \A m \in MeasuredValues :
        LET V == SeqToSet(enumValues[pFact])
            c == Chosen(pFact, m)
        IN  /\ c \in V
            /\ \A v \in V : Abs(c - m) <= Abs(v - m)
            /\ m \in V => c = m

\* C5 witness: an ISO value that is not allowed was compared with its
\* nearest allowed value, the list holding a farther one too.
C5_Witness ==
    /\ lastOp.op = "validateParameter" /\ lastOp.arg.pFact = "CAM_ISO"
    /\ ~lastOp.arg.result
    /\ lastOp.arg.newValue \notin SeqToSet(enumValues["CAM_ISO"])
    /\ \E v \in SeqToSet(enumValues["CAM_ISO"]) :
          Abs(v - lastOp.arg.newValue) >
              Abs(_validateISO("CAM_ISO", lastOp.arg.newValue) - lastOp.arg.newValue)

SpotSetInFrame ==
    /\ lastOp.op = "setSpotArea" /\ ~_isCGOET /\ _paramComplete
    /\ lastOp.arg[1] >= 0 /\ lastOp.arg[1] < _videoSize[1]
    /\ lastOp.arg[2] >= 0 /\ lastOp.arg[2] < _videoSize[2]

\* C6 as claimed: spotArea() after setSpotArea((x, y)) is within W/100 of x
\* and within H/100 of y.
C6_RoundTrip ==
    SpotSetInFrame =>
        /\ 100 * Abs(spotArea[1] - lastOp.arg[1]) <= _videoSize[1]
        /\ 100 * Abs(spotArea[2] - lastOp.arg[2]) <= _videoSize[2]

\* C6 amended: spotArea() after setSpotArea((x, y)) is not above (x, y) and
\* is less than W/100 + 1 below x and less than H/100 + 1 below y.
C6_RoundTripQuantized ==
    SpotSetInFrame =>
        /\ spotArea[1] <= lastOp.arg[1]
        /\ 100 * (lastOp.arg[1] - spotArea[1]) < _videoSize[1] + 100
        /\ spotArea[2] <= lastOp.arg[2]
        /\ 100 * (lastOp.arg[2] - spotArea[2]) < _videoSize[2] + 100

\* C6 witness: (2, 1) set on a 3 x 3 frame reads back as (1, 0).
C6_Witness ==
    /\ SpotSetInFrame /\ _videoSize = <<3, 3>> /\ lastOp.arg = <<2, 1>>
    /\ spotArea = <<1, 0>>

\* C9 as claimed: while the video status stays Running the record time
\* never decreases.
C9_Monotone ==
    [][(videoStatus = "RUNNING" /\ videoStatus' = "RUNNING")
          => _recordTime' >= _recordTime]_vars

\* C9 amended: while the video status stays Running the record time never
\* decreases in any step other than the handling of capture-status
\* telemetry (which sets it to the reported recording time).
C9_TickMonotone ==
    [][(videoStatus = "RUNNING" /\ videoStatus' = "RUNNING"
        /\ lastOp'.op # "handleCaptureStatus")
          => _recordTime' >= _recordTime]_vars

\* C9 witness: a tick after telemetry with 300 shows more than 300.
C9_Witness ==
    /\ lastOp.op = "_recTimerHandler" /\ videoStatus = "RUNNING"
    /\ syncR = 300 /\ _recordTime > 300

\* a message the driver does not consume
IsIrrelevant(message) ==
    \/ message.msgid \notin {"AUTOPILOT_VERSION", "MOUNT_ORIENTATION",
                             "COMMAND_ACK", "HEARTBEAT"}
    \/ /\ message.msgid = "COMMAND_ACK"
       /\ \/ message.command # "MAV_CMD_PREFLIGHT_CALIBRATION"
          \/ message.compid # "MAV_COMP_ID_GIMBAL"
    \/ message.msgid = "HEARTBEAT" /\ message.compid # "defaultComponentId"

\* C11: receiving a message of an unhandled type, a command ack that is not
\* a preflight-calibration ack of the gimbal component, or a heartbeat that
\* is not from the default component leaves the calibration state, the
\* mission flag, the resynchronization count, the orientation and the
\* version unchanged and emits no signal.
C11_IrrelevantDropped ==
    [][(lastOp'.op = "_mavlinkMessageReceived" /\ IsIrrelevant(lastOp'.arg))
          => (UNCHANGED <<calVars, hbVars, verVars, oriVars>> /\ emitted' = {})]_vars

\* C11 witness: an irrelevant message was dropped while a calibration was
\* settling, the vehicle was in mission mode and a version and an orientation
\* were known.
C11_Witness ==
    /\ lastOp.op = "_mavlinkMessageReceived" /\ IsIrrelevant(lastOp.arg)
    /\ lastOp.arg.msgid = "COMMAND_ACK" /\ lastOp.arg.progress = 255
    /\ _gimbalCalOn /\ _gimbalTimer >= 0 /\ _gimbalProgress = 99
    /\ _inMissionMode /\ _gimbalVersion # <<>> /\ _gimbalData
    /\ emitted = {}

\* a button event whose new state is pressed
IsPress(op, swId) ==
    op.op = "_switchStateChanged" /\ op.arg.swId = swId /\ op.arg.newState = 1

\* the storage/idle guard held when the handler op started
GuardPassed(op) ==
    storageTotal # 0 /\ storageFree >= 250 /\ op.pre.photoStatus = "IDLE"

\* outcomes of the last handler
Rejected ==
    /\ emitted = {"errorSound"} /\ called = <<>>
    /\ singleShots = lastOp.pre.singleShots
    /\ cameraMode = lastOp.pre.cameraMode
Requested(request) ==
    called = <<request>> /\ singleShots = lastOp.pre.singleShots
Deferred(mode, slot) ==
    /\ called = <<>> /\ cameraMode = mode
    /\ singleShots = Append(lastOp.pre.singleShots,
                            [slot |-> slot, ms |-> 2500, at |-> now])

\* the shutter outcome with the recording test read as "recording"
ShutterOutcome(recording) ==
    (IsPress(lastOp, "BUTTON_CAMERA_SHUTTER") /\ GuardPassed(lastOp)) =>
        CASE lastOp.pre.cameraMode = "CAM_MODE_VIDEO" ->
                IF recording THEN Rejected
                ELSE IF photosInVideoMode THEN Requested("takePhoto")
                ELSE Deferred("CAM_MODE_PHOTO", "_delayedTakePhoto")
          [] lastOp.pre.cameraMode = "CAM_MODE_PHOTO" -> Requested("takePhoto")
          [] OTHER -> Rejected

C13_GuardRejects ==
    ((IsPress(lastOp, "BUTTON_CAMERA_SHUTTER") \/ IsPress(lastOp, "BUTTON_VIDEO_SHUTTER"))
     /\ ~GuardPassed(lastOp))
        => (Rejected /\ photoStatus = lastOp.pre.photoStatus)

\* C13 witness: a video button press in photo mode with 249 units free was
\* rejected.
C13_Witness ==
    /\ IsPress(lastOp, "BUTTON_VIDEO_SHUTTER")
    /\ storageTotal = 1000 /\ storageFree = 249 /\ lastOp.pre.photoStatus = "IDLE"
    /\ lastOp.pre.cameraMode = "CAM_MODE_PHOTO"
    /\ Rejected

\* the last handler did nothing
NoEffect ==
    /\ emitted = {} /\ called = <<>>
    /\ singleShots = lastOp.pre.singleShots
    /\ cameraMode = lastOp.pre.cameraMode
    /\ photoStatus = lastOp.pre.photoStatus

\* C14 as claimed: a button event whose new state is not pressed, or whose
\* old state was already pressed, has no effect.
C14_EdgeOnly ==
    (lastOp.op = "_switchStateChanged"
     /\ (lastOp.arg.newState # 1 \/ lastOp.arg.oldState = 1)) => NoEffect

\* C14 amended: a button event whose new state is not pressed has no effect
\* (the old state is not looked at: an event whose new state is pressed is
\* handled as a press whatever the old state).
C14_PressedOnly ==
    (lastOp.op = "_switchStateChanged" /\ lastOp.arg.newState # 1) => NoEffect

\* C14 witness: the release of the shutter button, in a state where a press
\* would have taken a photo, did nothing.
C14_Witness ==
    /\ lastOp.op = "_switchStateChanged"
    /\ lastOp.arg.swId = "BUTTON_CAMERA_SHUTTER"
    /\ lastOp.arg.oldState = 1 /\ lastOp.arg.newState = 0
    /\ GuardPassed(lastOp) /\ lastOp.pre.cameraMode = "CAM_MODE_PHOTO"
    /\ NoEffect

\* C15: a guarded video button press in video mode requests a stop when the
\* video status is Running and a start otherwise; in any other mode it
\* switches to video mode, requests nothing yet and defers one start request,
\* which is made exactly 2500 ms after the press.
C15_VideoButton ==
    /\ (IsPress(lastOp, "BUTTON_VIDEO_SHUTTER") /\ GuardPassed(lastOp)) =>
          IF lastOp.pre.cameraMode = "CAM_MODE_VIDEO"
          THEN Requested(IF lastOp.pre.videoStatus = "RUNNING"
                         THEN "stopVideo" ELSE "startVideo")
          ELSE Deferred("CAM_MODE_VIDEO", "_delayedStartVideo")
    /\ lastOp.op = "_delayedStartVideo"
          => /\ called = <<"startVideo">>
             /\ now - lastOp.arg.at = 2500
             /\ Len(singleShots) = Len(lastOp.pre.singleShots) - 1

\* C15 witness: the start deferred by a press in photo mode was requested
\* 2500 ms later.
C15_Witness ==
    /\ lastOp.op = "_delayedStartVideo" /\ called = <<"startVideo">>
    /\ cameraMode = "CAM_MODE_VIDEO" /\ now - lastOp.arg.at = 2500
    /\ lastOp.pre.singleShots = <<lastOp.arg>>

\* C16 as claimed: at most one callback of each purpose (flush, deferred
\* photo, deferred start) is pending at any time.
C16_OnePerPurpose ==
    \A i, j \in 1..Len(singleShots) :
        i # j => singleShots[i].slot # singleShots[j].slot

\* the delay each slot is scheduled with
SlotDelay(slot) == IF slot = "_sendUpdates" THEN 100 ELSE 2500

\* C16 amended: the flush and the deferred capture requests are independent
\* one-shot callbacks.  Every snapped value and every deferring press adds
\* one callback and leaves those pending alone; the deadline of a pending
\* callback (100 ms, 2500 ms after it was scheduled) is never reset; a
\* callback that runs is one whose delay has expired and only it is removed.
C16_IndependentCallbacks ==
    [][/\ \A i \in 1..Len(singleShots') :
             singleShots'[i].ms =
                 SlotDelay(singleShots'[i].slot) - (now' - singleShots'[i].at)
       /\ (lastOp'.op = "incomingParameter" /\ lastOp'.arg.adjusted)
             => singleShots' = Append(singleShots,
                                  [slot |-> "_sendUpdates", ms |-> 100, at |-> now])
       /\ lastOp'.op = "_switchStateChanged"
             => \/ singleShots' = singleShots
                \/ \E slot \in {"_delayedTakePhoto", "_delayedStartVideo"} :
                      singleShots' = Append(singleShots,
                                        [slot |-> slot, ms |-> 2500, at |-> now])
       /\ lastOp'.op \in {"_sendUpdates", "_delayedTakePhoto", "_delayedStartVideo"}
             => \E i \in 1..Len(singleShots) :
                   /\ singleShots[i].slot = lastOp'.op /\ singleShots[i].ms = 0
                   /\ singleShots' = RemoveAt(singleShots, i)
      ]_vars

\* C16 witness: a second snapped value arrived while the flush of the first
\* was pending; two flush callbacks with different deadlines are pending.
C16_Witness ==
    /\ lastOp.op = "incomingParameter" /\ lastOp.arg.adjusted
    /\ lastOp.arg.pFact \in lastOp.pre.pending
    /\ Len(singleShots) = 2
    /\ singleShots[1].slot = "_sendUpdates" /\ singleShots[2].slot = "_sendUpdates"
    /\ singleShots[1].at < singleShots[2].at

\* C17: a flush sends one request for each pending name when the variant
\* is not thermal and CAM_EXPMODE is 1, and nothing in every other case.
C17_FlushGuard ==
    lastOp.op = "_sendUpdates" =>
        IF ~_isCGOET /\ "CAM_EXPMODE" \in DOMAIN rawValue /\ rawValue["CAM_EXPMODE"] = 1
        THEN /\ SeqToSet(sent) = lastOp.pre.pending
             /\ Len(sent) = Cardinality(lastOp.pre.pending)
        ELSE sent = <<>>

\* C17 witness: a flush in manual exposure mode sent both pending names.
C17_Witness ==
    /\ lastOp.op = "_sendUpdates" /\ ~_isCGOET /\ rawValue["CAM_EXPMODE"] = 1
    /\ lastOp.pre.pending = {"CAM_ISO", "CAM_SHUTTERSPD"}
    /\ Len(sent) = 2

\* a flush callback is pending
FlushPending == \E i \in 1..Len(singleShots) : singleShots[i].slot = "_sendUpdates"

VideoStatusStep == lastOp'.op \in {"_setVideoStatus", "handleCaptureStatus"}

\* C19: when the video status changes to Running, the recording tick is
\* started, the record time is 0 and the clock is restarted when
\* _setVideoStatus returns; on a variant other than the thermal one CAM_VIDRES
\* and CAM_VIDFMT are not editable afterwards and activeSettingsChanged is
\* emitted.
C19_ToRunning ==
    [][(VideoStatusStep /\ videoStatus # "RUNNING" /\ videoStatus' = "RUNNING") =>
          /\ _recTimer'
          /\ lastOp'.op = "_setVideoStatus" =>
                /\ _recordTime' = 0
                /\ _recTime' = QTime_currentTime
          /\ ~_isCGOET =>
                /\ "CAM_VIDRES" \notin SeqToSet(_activeSettings')
                /\ "CAM_VIDFMT" \notin SeqToSet(_activeSettings')
                /\ "activeSettingsChanged" \in emitted']_vars

\* C19 witness: a recording has started on a variant other than the thermal
\* one, long enough after construction for the clock to have been restarted.
C19_Witness ==
    /\ lastOp.op = "_setVideoStatus" /\ lastOp.arg = "RUNNING"
    /\ "videoSound" \in emitted /\ "activeSettingsChanged" \in emitted
    /\ ~_isCGOET /\ _recTimer /\ _recordTime = 0
    /\ _recTime = QTime_addMSecs(ClockAtStart, 300)
    /\ _activeSettings = <<"CAM_MODE", "CAM_EXPMODE", "CAM_ISO", "CAM_SHUTTERSPD">>

\* the parameters excluded by the rules whose trigger has its value
ExcludedNow ==
    {key \in SeqToSet(_settings) :
        \E i \in 1..Len(_valueExclusions) :
            /\ rawValue[_valueExclusions[i].param] = _valueExclusions[i].value
            /\ key \in SeqToSet(_valueExclusions[i].exclusions)}

\* C20: when the video status changes from Running to another status the
\* recording tick is stopped, the editable parameters are all parameters but
\* the ones excluded by a rule that matches, and activeSettingsChanged is
\* emitted exactly when the editable set has changed; a report of the status
\* the camera already has changes nothing (the telemetry of a running
\* recording only synchronises the record time).
C20_FromRunning ==
    [][VideoStatusStep =>
          /\ (videoStatus = "RUNNING" /\ videoStatus' # "RUNNING") =>
                /\ ~_recTimer'
                /\ SeqToSet(_activeSettings') = SeqToSet(_settings) \ ExcludedNow
                /\ ("activeSettingsChanged" \in emitted') <=>
                      (SeqToSet(_activeSettings') # SeqToSet(_activeSettings))
          /\ (videoStatus' = videoStatus) =>
                /\ UNCHANGED <<_recTimer, _activeSettings>>
                /\ emitted' \subseteq {"recordTimeChanged"}
                /\ (lastOp'.op = "_setVideoStatus" \/ videoStatus # "RUNNING") =>
                      /\ UNCHANGED recVars
                      /\ emitted' = {}]_vars

\* C20 witness: a recording stops on the thermal variant after the exposure
\* mode became automatic: the rule excludes CAM_ISO and CAM_SHUTTERSPD and the
\* change is notified.
C20_Witness ==
    /\ lastOp.op = "_setVideoStatus" /\ lastOp.arg = "STOPPED"
    /\ _isCGOET /\ ~_recTimer /\ rawValue["CAM_EXPMODE"] = 0
    /\ "activeSettingsChanged" \in emitted
    /\ _activeSettings = <<"CAM_MODE", "CAM_EXPMODE", "CAM_VIDRES", "CAM_VIDFMT">>

\* C21: validateParameter accepts a shutter-speed or ISO value exactly when
\* it is one of the parameter's allowed values, and accepts every value of
\* another parameter.
C21_ValidationBoundary ==
    lastOp.op = "validateParameter" =>
        (lastOp.arg.result <=>
            (lastOp.arg.pFact \in {"CAM_SHUTTERSPD", "CAM_ISO"} =>
                lastOp.arg.newValue \in SeqToSet(enumValues[lastOp.arg.pFact])))

\* C21 witness: a shutter speed between two allowed values was rejected.
C21_Witness ==
    /\ lastOp.op = "validateParameter" /\ lastOp.arg.pFact = "CAM_SHUTTERSPD"
    /\ ~lastOp.arg.result
    /\ enumValues["CAM_SHUTTERSPD"] = <<0, 1, 3>> /\ lastOp.arg.newValue = 2

\* the positions of the allowed values nearest to m
NearestAt(pFact, m) ==
    LET list == enumValues[pFact]
    IN  {i \in 1..Len(list) :
            \A j \in 1..Len(list) : Abs(list[i] - m) <= Abs(list[j] - m)}

\* C22 as claimed: the value chosen is the nearest allowed value that comes
\* first in the allowed list, for shutter speed and ISO.
C22_FirstEncountered ==
    \A pFact \in {"CAM_SHUTTERSPD", "CAM_ISO"} : \A m \in MeasuredValues :
        Chosen(pFact, m) = enumValues[pFact][Min(NearestAt(pFact, m))]

\* C22 amended: the value chosen is the nearest allowed value that comes
\* last in the allowed list, for shutter speed and ISO.
C22_LastEncountered ==
    \A pFact \in {"CAM_SHUTTERSPD", "CAM_ISO"} : \A m \in MeasuredValues :
        Chosen(pFact, m) =
            enumValues[pFact][CHOOSE i \in NearestAt(pFact, m) :
                                 \A j \in NearestAt(pFact, m) : j <= i]

\* C22 witness: 2 was compared with the ascending list 1, 3: both are at
\* distance 1 and 3 is chosen.
C22_Witness ==
    /\ lastOp.op = "validateParameter" /\ lastOp.arg.pFact = "CAM_ISO"
    /\ enumValues["CAM_ISO"] = <<1, 3>> /\ lastOp.arg.newValue = 2
    /\ NearestAt("CAM_ISO", 2) = {1, 2}
    /\ _validateISO("CAM_ISO", 2) = 3 /\ _validateShutterSpeed("CAM_ISO", 2) = 3

\* the byte setSpotArea has to write for coordinate c of a frame of size d
ClampedPercent(c, d) ==
    IF c < 0 THEN {0}
    ELSE IF c > d THEN {100}
    ELSE FloatPercent(c, d)

\* C23: for every point, negative and beyond the frame included, setSpotArea
\* writes (x << 8) | y with both bytes in 0..100: 0 for a negative
\* coordinate, 100 for a coordinate whose percentage exceeds 100.
C23_EncodeClamped ==
    (lastOp.op = "setSpotArea" /\ ~_isCGOET /\ _paramComplete) =>
        LET x == rawValue["CAM_SPOTAREA"] \div 256
            y == rawValue["CAM_SPOTAREA"] % 256
        IN  /\ x \in 0..100 /\ y \in 0..100
            /\ x \in ClampedPercent(lastOp.arg[1], _videoSize[1])
            /\ y \in ClampedPercent(lastOp.arg[2], _videoSize[2])

\* C23 witness: x = 300 on a frame 100 wide is 300 %, which the conversion
\* to uint8_t turned into 44 before the clamp.
C23_Witness ==
    /\ lastOp.op = "setSpotArea" /\ ~_isCGOET /\ _paramComplete
    /\ _videoSize = <<100, 100>> /\ lastOp.arg = <<300, 0>>
    /\ rawValue["CAM_SPOTAREA"] = 44 * 256

\* a handler of the control dispatcher has issued a capture request
IssuedRequest ==
    /\ lastOp.op \in {"_switchStateChanged", "_delayedTakePhoto", "_delayedStartVideo"}
    /\ \E i \in 1..Len(called) : called[i] \in {"takePhoto", "startVideo"}

\* C24: every photo or start-recording request of the control dispatcher,
\* the ones of the deferred callbacks included, is issued with storage
\* capacity, at least 250 of free storage, an idle photo status and, for a
\* deferred request, the camera in the mode selected by the press.
C24_DeferredGuarded ==
    IssuedRequest =>
        /\ storageTotal # 0 /\ storageFree >= 250
        /\ lastOp.pre.photoStatus = "IDLE"
        /\ lastOp.op = "_delayedTakePhoto" => lastOp.pre.cameraMode = "CAM_MODE_PHOTO"
        /\ lastOp.op = "_delayedStartVideo" => lastOp.pre.cameraMode = "CAM_MODE_VIDEO"

\* C24 witness: the deferred photo request was issued while the photo status
\* was still undefined after the mode switch.
C24_Witness ==
    /\ lastOp.op = "_delayedTakePhoto" /\ called = <<"takePhoto">>
    /\ lastOp.pre.photoStatus = "UNDEFINED"
    /\ lastOp.pre.cameraMode = "CAM_MODE_PHOTO"

\* C25: the recording tick is active exactly while the video status is
\* Running, and the record time is 0 whenever it is not Running.
C25_TickIffRunning ==
    /\ _recTimer <=> (videoStatus = "RUNNING")
    /\ videoStatus # "RUNNING" => _recordTime = 0

\* C25 witness: a recording whose record time had been synchronised and
\* ticked has stopped: the tick is off and the record time is 0 again.
C25_Witness ==
    /\ lastOp.op = "handleCaptureStatus" /\ lastOp.arg.video_status = "STOPPED"
    /\ lastOp.arg.recording_time_ms = 900
    /\ "videoSound" \in emitted /\ ~_recTimer /\ _recordTime = 0
    /\ syncR = -1 /\ now >= 300

\* C26: a change notification for CAM_EV, CAM_EXPMODE, CAM_ISO,
\* CAM_METERING, CAM_MODE, CAM_SHUTTERSPD or CAM_WBMODE leaves the photo
\* status Undefined, the capture-status request due in 1000 ms and the retry
\* counter 0; a press of the shutter or video button while the photo status
\* is not idle is rejected; a change of CAM_TEMPSTATUS on the thermal variant
\* leaves the photo status, the request timer and the retry counter alone.
C26_ExposureChangeDisables ==
    [][/\ (lastOp'.op = "factChanged" /\ lastOp'.arg \in
              {"CAM_EV", "CAM_EXPMODE", "CAM_ISO", "CAM_METERING", "CAM_MODE",
               "CAM_SHUTTERSPD", "CAM_WBMODE"}) =>
             /\ photoStatus' = "UNDEFINED"
             /\ _captureStatusTimer' = 1000
             /\ _captureInfoRetries' = 0
       /\ (lastOp'.op = "factChanged" /\ lastOp'.arg = "CAM_TEMPSTATUS" /\ _isCGOET) =>
             UNCHANGED <<photoStatus, _captureStatusTimer, _captureInfoRetries>>
       /\ (lastOp'.op = "_switchStateChanged" /\ lastOp'.arg.newState = 1
              /\ photoStatus # "IDLE") =>
             /\ emitted' = {"errorSound"} /\ called' = <<>>
             /\ UNCHANGED <<singleShots, cameraMode, rawValue>>]_vars

\* C26 witness: the white balance changed after two failed requests while a
\* request was due: the counter is 0 again and the request is due in 1000 ms.
C26_Witness ==
    /\ lastOp.op = "factChanged" /\ lastOp.arg = "CAM_WBMODE"
    /\ lastOp.pre.photoStatus = "IDLE" /\ photoStatus = "UNDEFINED"
    /\ _captureStatusTimer = 1000 /\ _captureInfoRetries = 0
    /\ lastOp.pre.timer = 500 /\ lastOp.pre.retries = 2

====
